---- MODULE Spec2Model ----
(***************************************************************************)
(* Keystroke sequence matcher of react-keyboard-control.                   *)
(*                                                                         *)
(* Two mounted variants of the hook are modelled:                          *)
(*   "index"    src/src/index.tsx  useKeyboardControl(keyboardHooks, ..)   *)
(*              (allowWhen gate, no early completion option)               *)
(*   "part_001" src/unnamed/part_001 useKeyboardControl(config)            *)
(*              (allowEarlyCompletion option, no allowWhen gate)           *)
(* and, for the Escape key, the older component                            *)
(*   "ReactKeyboardNav" src/ReactKeyboardNav.tsx                           *)
(*              (allowEarlyCompletion and escapeToExitSequence options)    *)
(*                                                                         *)
(* Optional booleans of a hook (allowOnTextInput, preventDefault,          *)
(* allowWhen) are the strings "undefined", "true", "false".  A keyboard    *)
(* event is a record of its key, its four modifier flags and its target's *)
(* tagName.  The modifier glyphs of MODIFIER_SYMBOLS are written in ASCII. *)
(***************************************************************************)
EXTENDS Naturals, Sequences, FiniteSets, TLC

VARIABLES
    variant,              \* which component is mounted
    allowEarlyCompletion, \* the option of the part_001 variant
    escapeToExitSequence, \* the option of the ReactKeyboardNav variant
    keyboardHooks,        \* the caller's hook list (props of the last render)
    candidateHooks,       \* useState(keyboardHooks)
    currentSequence,      \* useState([] as TypedKey[])
    trace                 \* observation: one entry per event delivered

vars == <<variant, allowEarlyCompletion, escapeToExitSequence, keyboardHooks,
          candidateHooks, currentSequence, trace>>

\* Number of events delivered in one run.
MaxEvents == 3

\* Number of events delivered in one run of the runs that go through every
\* combination of the modifier flags.
MaxFlagEvents == 2

-----------------------------------------------------------------------------
\* Constants of the source.

META == "Meta"

ALT == "Alt"

CONTROL == "Control"

\* MODIFIERS with the Alt key left out.
MODIFIERS_WithoutAlt == {META, CONTROL}

MODIFIERS == {META, ALT, CONTROL}

INPUT_TAG == "input"

TEXTAREA_TAG == "textarea"

TEXT_INPUT_TAGS == {INPUT_TAG, TEXTAREA_TAG}

MODIFIER_SYMBOLS == [META |-> "<cmd>", ALT |-> "<opt>", CONTROL |-> "^", SHIFT |-> "<shift>"]

\* The null of getFirstFromArrayOrItem.
NULL == [null |-> TRUE]

\* The null passed as hookMatch's invalidTags: a falsy list of tags.
NO_TAGS == {}

-----------------------------------------------------------------------------
\* Events the host can deliver.

Ev(key, meta, alt, ctrl, shift, tag) ==
    [key |-> key, metaKey |-> meta, altKey |-> alt, ctrlKey |-> ctrl,
     shiftKey |-> shift, target |-> [tagName |-> tag]]

Events ==
    { Ev("l", FALSE, FALSE, FALSE, FALSE, "DIV"),
      Ev("o", FALSE, FALSE, FALSE, FALSE, "DIV"),
      Ev("n", FALSE, FALSE, FALSE, FALSE, "DIV"),
      Ev(";", TRUE, FALSE, FALSE, FALSE, "DIV"),
      Ev("T", FALSE, FALSE, FALSE, TRUE, "DIV"),
      Ev("l", FALSE, FALSE, FALSE, FALSE, "INPUT"),
      Ev("o", FALSE, FALSE, FALSE, FALSE, "textarea"),
      Ev("Meta", TRUE, FALSE, FALSE, FALSE, "DIV"),
      Ev("Alt", FALSE, TRUE, FALSE, FALSE, "DIV"),
      Ev("Control", FALSE, FALSE, TRUE, FALSE, "DIV"),
      Ev("Shift", FALSE, FALSE, FALSE, TRUE, "DIV") }

\* The keys l and o pressed with every combination of the four modifiers.
FlagEvents ==
    { Ev(key, meta, alt, ctrl, shift, "DIV") :
          key \in {"l", "o"}, meta \in BOOLEAN, alt \in BOOLEAN,
          ctrl \in BOOLEAN, shift \in BOOLEAN }

\* String.prototype.toUpperCase on the tag names that occur.
toUpperCase(s) ==
    CASE s = "input" -> "INPUT"
      [] s = "textarea" -> "TEXTAREA"
      [] s = "div" -> "DIV"
      [] OTHER -> s

-----------------------------------------------------------------------------
\* Hooks the caller registers.  keyboardEvent is [array, steps]: an array of
\* descriptors, or (array = FALSE) the single descriptor steps[1].

Hook(isArray, steps, cb, onText, prevent, when) ==
    [keyboardEvent |-> [array |-> isArray, steps |-> steps],
     callback |-> cb, allowOnTextInput |-> onText,
     preventDefault |-> prevent, allowWhen |-> when]

KeyL == [key |-> "l"]

KeyO == [key |-> "o"]

KeyN == [key |-> "n"]

KeySemiMeta == [key |-> ";", metaKey |-> TRUE]

KeyShiftT == [key |-> "T", shiftKey |-> TRUE]

HookA == Hook(TRUE, <<KeyL>>, "A", "undefined", "undefined", "undefined")

HookB == Hook(TRUE, <<KeyL, KeyO>>, "B", "undefined", "undefined", "undefined")

HookLight == Hook(TRUE, <<KeySemiMeta, KeyL>>, "light", "undefined", "undefined", "undefined")

HookDark == Hook(TRUE, <<KeySemiMeta, KeyO>>, "dark", "undefined", "undefined", "undefined")

HookN == Hook(FALSE, <<KeyN>>, "n", "true", "true", "undefined")

HookLong == Hook(TRUE, <<KeyL, KeyO, KeyN>>, "long", "undefined", "undefined", "true")

HookLSemi == Hook(TRUE, <<KeyL, KeySemiMeta>>, "lsemi", "undefined", "undefined", "undefined")

HookShift == Hook(TRUE, <<KeyL, KeyShiftT>>, "shift", "undefined", "undefined", "undefined")

HookText == Hook(TRUE, <<KeyL, KeyO>>, "text", "true", "true", "undefined")

\* A single descriptor, not an array, allowed on text inputs.
HookA2 == Hook(FALSE, <<KeyL>>, "A2", "true", "undefined", "undefined")

\* keyboardEvent: []
HookEmpty == Hook(TRUE, <<>>, "empty", "undefined", "undefined", "undefined")

\* Two hooks with a state-dependent allowWhen.
HookGate1 == Hook(TRUE, <<KeyO>>, "gate1", "undefined", "undefined", "true")

HookGate2 == Hook(TRUE, <<KeyN, KeyO>>, "gate2", "undefined", "undefined", "true")

\* A three-step hook whose first step names a modifier flag.
HookMetaL == Hook(TRUE, <<[key |-> "l", metaKey |-> TRUE], KeyO, KeyN>>, "metal",
                  "undefined", "undefined", "undefined")

\* The hook lists of the runs over FlagEvents: patterns long enough for the
\* typed keys to stay in the current sequence.
HookListsFlags ==
    { <<HookLong>>,
      <<HookLong, HookMetaL>> }

\* A two-step hook whose first descriptor carries a contextName.
HookCtx == Hook(TRUE, <<[key |-> "l", contextName |-> "editor"], KeyO>>, "ctx",
                "undefined", "undefined", "undefined")

\* The hook lists with a descriptor that carries a contextName.
HookListsContext ==
    { <<HookCtx, HookN>>,
      <<HookB, HookCtx>> }

\* The hook lists of the runs in which the caller renews a callback.
HookListsCallback ==
    { <<HookB, HookN>>,
      <<HookLong>> }

\* The callback the caller passes for a hook after its state has changed:
\* a new function for the same pattern.
renewedCallback(callback) == callback \o "_renewed"

\* A two-step hook whose callback throws.
HookBoom == Hook(TRUE, <<KeyL, KeyO>>, "boom", "undefined", "undefined", "undefined")

\* The hook lists with a throwing callback.
HookListsThrow ==
    { <<HookBoom, HookN>>,
      <<HookLong, HookBoom>> }

\* The hook lists with a hook that is the only one to start with its key
\* and whose allowWhen depends on state.
HookListsGate ==
    { <<HookGate1, HookB>>,
      <<HookGate2, HookA>> }

HookLists ==
    { <<HookA, HookB>>,
      <<HookB, HookA>>,
      <<HookLight, HookDark, HookN>>,
      <<HookLong, HookLSemi>>,
      <<HookLong, HookB>>,
      <<HookShift>>,
      <<HookText, HookA>>,
      <<HookB, HookText>>,
      <<HookText, HookB>>,
      <<HookA, HookA2>>,
      <<HookA2, HookA>>,
      <<HookEmpty, HookA>> }

-----------------------------------------------------------------------------
\* Pure helpers.

orDefault(param, default_value) ==
    IF param = "undefined" THEN default_value ELSE param

\* JavaScript truthiness of an optional boolean.
Truthy(v) == v = "true"

\* partialKeyboardEventMatch that compares every key of p, contextName too.
partialKeyboardEventMatch_Strict(o, p) ==
    \A k \in DOMAIN p : k \in DOMAIN o /\ p[k] = o[k]

\* partialKeyboardEventMatch with Array.prototype.some in place of every.
partialKeyboardEventMatch_Some(o, p) ==
    \E k \in DOMAIN p :
        k = "contextName" \/ (k \in DOMAIN o /\ p[k] = o[k])

partialKeyboardEventMatch(o, p) ==
    \A k \in DOMAIN p :
        k = "contextName" \/ (k \in DOMAIN o /\ p[k] = o[k])

\* keyboardEventTargetHasTag that compares the tag names as they are written.
keyboardEventTargetHasTag_CaseSensitive(e, tags) ==
    \E tag \in tags : e.target.tagName = tag

keyboardEventTargetHasTag(e, tags) ==
    \E tag \in tags : toUpperCase(e.target.tagName) = toUpperCase(tag)

hookMatch(event, hook, invalidTags) ==
    /\ partialKeyboardEventMatch(event, hook)
    /\ ~(invalidTags # NO_TAGS /\ keyboardEventTargetHasTag(event, invalidTags))

\* The same two helpers as part_001 has them: every named attribute is
\* compared, contextName included.
partialKeypressEventMatch(o, p) ==
    \A k \in DOMAIN p : k \in DOMAIN o /\ p[k] = o[k]

keypressHookMatch(event, hook, invalidTags) ==
    /\ partialKeypressEventMatch(event, hook)
    /\ ~(invalidTags # NO_TAGS /\ keyboardEventTargetHasTag(event, invalidTags))

\* getFirstFromArrayOrItem that reads arrays only: a keyboardEvent given as
\* a single descriptor yields null.
getFirstFromArrayOrItem_ArrayOnly(arrayOrItem) ==
    IF arrayOrItem.array
    THEN IF Len(arrayOrItem.steps) = 0 THEN NULL ELSE arrayOrItem.steps[1]
    ELSE NULL

\* The helpers below are the same text in index.tsx and in part_001
\* (executeKeypressHook, removeFirstKeypressEventInHook, ...).
getFirstFromArrayOrItem(arrayOrItem) ==
    IF arrayOrItem.array
    THEN IF Len(arrayOrItem.steps) = 0 THEN NULL ELSE arrayOrItem.steps[1]
    ELSE arrayOrItem.steps[1]

\* The callbacks that throw when they are called.
ThrowingCallbacks == {"boom"}

\* executeKeyboardHook: the callback runs, then preventDefault when asked.
\* A callback that throws ends the listener there.
executeKeyboardHook(keyboardHook) ==
    [invoked |-> <<keyboardHook.callback>>,
     threw |-> keyboardHook.callback \in ThrowingCallbacks,
     prevented |-> /\ keyboardHook.callback \notin ThrowingCallbacks
                   /\ Truthy(keyboardHook.preventDefault)]

\* basicFormatKey that pushes the Alt symbol before the Meta symbol.
basicFormatKey_AltFirst(e) ==
    (IF e.altKey THEN MODIFIER_SYMBOLS.ALT ELSE "")
    \o (IF e.metaKey THEN MODIFIER_SYMBOLS.META ELSE "")
    \o (IF e.ctrlKey THEN MODIFIER_SYMBOLS.CONTROL ELSE "")
    \o (IF e.shiftKey THEN MODIFIER_SYMBOLS.SHIFT ELSE "")
    \o e.key

basicFormatKey(e) ==
    (IF e.metaKey THEN MODIFIER_SYMBOLS.META ELSE "")
    \o (IF e.altKey THEN MODIFIER_SYMBOLS.ALT ELSE "")
    \o (IF e.ctrlKey THEN MODIFIER_SYMBOLS.CONTROL ELSE "")
    \o (IF e.shiftKey THEN MODIFIER_SYMBOLS.SHIFT ELSE "")
    \o e.key

keyboardEventToTypedKey(keyboardEvent) ==
    [event |-> keyboardEvent, basicRepresentation |-> basicFormatKey(keyboardEvent)]

\* removeFirstKeyboardEventInHook that never asks to keep the updated hook.
removeFirstKeyboardEventInHook_NeverKeep(keyboardHook) ==
    LET keyboardEvent == keyboardHook.keyboardEvent
        wasLastMatch == IF keyboardEvent.array
                        THEN Len(keyboardEvent.steps) = 1
                        ELSE TRUE
        newKeyboardEvent == IF keyboardEvent.array /\ Len(keyboardEvent.steps) > 1
                            THEN Tail(keyboardEvent.steps)
                            ELSE <<>>
    IN  <<[keyboardHook EXCEPT !.keyboardEvent = [array |-> TRUE, steps |-> newKeyboardEvent]],
          wasLastMatch,
          FALSE>>

\* removeFirstKeyboardEventInHook with the length test off by one: the last
\* match is reported for an already empty array instead of a one-step array.
removeFirstKeyboardEventInHook_OffByOne(keyboardHook) ==
    LET keyboardEvent == keyboardHook.keyboardEvent
        wasLastMatch == IF keyboardEvent.array
                        THEN Len(keyboardEvent.steps) = 0
                        ELSE TRUE
        newKeyboardEvent == IF keyboardEvent.array /\ Len(keyboardEvent.steps) > 1
                            THEN Tail(keyboardEvent.steps)
                            ELSE <<>>
    IN  <<[keyboardHook EXCEPT !.keyboardEvent = [array |-> TRUE, steps |-> newKeyboardEvent]],
          wasLastMatch,
          Len(newKeyboardEvent) > 0>>

\* <<updated hook, wasLastMatch, keep>>
removeFirstKeyboardEventInHook(keyboardHook) ==
    LET keyboardEvent == keyboardHook.keyboardEvent
        wasLastMatch == IF keyboardEvent.array
                        THEN Len(keyboardEvent.steps) = 1
                        ELSE TRUE
        newKeyboardEvent == IF keyboardEvent.array /\ Len(keyboardEvent.steps) > 1
                            THEN Tail(keyboardEvent.steps)
                            ELSE <<>>
    IN  <<[keyboardHook EXCEPT !.keyboardEvent = [array |-> TRUE, steps |-> newKeyboardEvent]],
          wasLastMatch,
          Len(newKeyboardEvent) > 0>>

-----------------------------------------------------------------------------
\* The body of the event handlers.  Each returns what the handler does to the
\* state: the hooks that survived the filter, the callbacks it invoked,
\* whether it called preventDefault, and the values it leaves in
\* currentSequence and candidateHooks.

\* The for loop executing the last of the hooks that complete, not the first.
updateLoop_LastWins(localCandidateHooks, i, newCandidates) ==
    LET n == Len(localCandidateHooks)
        done == {k \in i..n : removeFirstKeyboardEventInHook(localCandidateHooks[k])[2]}
        kept == SelectSeq(SubSeq(localCandidateHooks, i, n),
                          LAMBDA h : removeFirstKeyboardEventInHook(h)[3])
        pushed == newCandidates \o
                  [k \in DOMAIN kept |-> removeFirstKeyboardEventInHook(kept[k])[1]]
    IN  IF done = {}
        THEN [fired |-> FALSE, threw |-> FALSE, newCandidates |-> pushed,
              invoked |-> <<>>, prevented |-> FALSE]
        ELSE LET candidateHook ==
                     localCandidateHooks[CHOOSE k \in done : \A m \in done : m <= k]
             IN  [fired |-> TRUE, newCandidates |-> pushed,
                  threw |-> executeKeyboardHook(candidateHook).threw,
                  invoked |-> executeKeyboardHook(candidateHook).invoked,
                  prevented |-> executeKeyboardHook(candidateHook).prevented]

\* The for loop of updateCandidatesAndMaybeExecuteHooks, from index i on.
RECURSIVE updateLoop(_, _, _)
updateLoop(localCandidateHooks, i, newCandidates) ==
    IF i > Len(localCandidateHooks)
    THEN [fired |-> FALSE, threw |-> FALSE, newCandidates |-> newCandidates,
          invoked |-> <<>>, prevented |-> FALSE]
    ELSE LET candidateHook == localCandidateHooks[i]
             r == removeFirstKeyboardEventInHook(candidateHook)
             pushed == IF r[3] THEN Append(newCandidates, r[1]) ELSE newCandidates
         IN  IF r[2]
             THEN [fired |-> TRUE, newCandidates |-> pushed,
                   threw |-> executeKeyboardHook(candidateHook).threw,
                   invoked |-> executeKeyboardHook(candidateHook).invoked,
                   prevented |-> executeKeyboardHook(candidateHook).prevented]
             ELSE updateLoop(localCandidateHooks, i + 1, pushed)

\* The callback threw: the listener ends before setCurrentSequence([]), and
\* both pieces of state keep their values.
threwInCallback(localCandidateHooks, invoked) ==
    [kind |-> "threw", survivors |-> localCandidateHooks,
     invoked |-> invoked, prevented |-> FALSE,
     sequence |-> currentSequence, candidates |-> candidateHooks]

\* updateCandidatesAndMaybeExecuteHooks that puts the new typed key in front
\* of the current sequence instead of behind it.
updateCandidatesAndMaybeExecuteHooks_Prepend(localCandidateHooks, e) ==
    LET r == updateLoop(localCandidateHooks, 1, <<>>)
    IN  IF r.threw
        THEN threwInCallback(localCandidateHooks, r.invoked)
        ELSE IF r.fired
        THEN [kind |-> "fired", survivors |-> localCandidateHooks,
              invoked |-> r.invoked, prevented |-> r.prevented,
              sequence |-> <<>>, candidates |-> candidateHooks]
        ELSE [kind |-> "advanced", survivors |-> localCandidateHooks,
              invoked |-> <<>>, prevented |-> FALSE,
              sequence |-> <<keyboardEventToTypedKey(e)>> \o currentSequence,
              candidates |-> r.newCandidates]

updateCandidatesAndMaybeExecuteHooks(localCandidateHooks, e) ==
    LET r == updateLoop(localCandidateHooks, 1, <<>>)
    IN  IF r.threw
        THEN threwInCallback(localCandidateHooks, r.invoked)
        ELSE IF r.fired
        THEN [kind |-> "fired", survivors |-> localCandidateHooks,
              invoked |-> r.invoked, prevented |-> r.prevented,
              sequence |-> <<>>, candidates |-> candidateHooks]
        ELSE [kind |-> "advanced", survivors |-> localCandidateHooks,
              invoked |-> <<>>, prevented |-> FALSE,
              sequence |-> Append(currentSequence, keyboardEventToTypedKey(e)),
              candidates |-> r.newCandidates]

\* The pool chosen by the length of candidateHooks instead of the length of
\* currentSequence.
candidatePool_ByCandidates ==
    IF Len(candidateHooks) > 0 THEN candidateHooks ELSE keyboardHooks

\* The pool is the registered list whatever has been typed.
candidatePool_AlwaysRegistered == keyboardHooks

\* The pool the filter runs on.
candidatePool ==
    IF Len(currentSequence) > 0 THEN candidateHooks ELSE keyboardHooks

\* The filter predicate without the allowWhen condition.
keyboardHookFilter_NoGate(keyboardHook, e) ==
    LET expectedKeystroke == getFirstFromArrayOrItem(keyboardHook.keyboardEvent)
    IN  /\ expectedKeystroke # NULL
        /\ hookMatch(e, expectedKeystroke,
                     IF Truthy(keyboardHook.allowOnTextInput) THEN NO_TAGS ELSE TEXT_INPUT_TAGS)

\* The filter predicate of handleKeyboardEvent (index.tsx).
keyboardHookFilter(keyboardHook, e) ==
    LET expectedKeystroke == getFirstFromArrayOrItem(keyboardHook.keyboardEvent)
    IN  /\ Truthy(orDefault(keyboardHook.allowWhen, "true"))
        /\ expectedKeystroke # NULL
        /\ hookMatch(e, expectedKeystroke,
                     IF Truthy(keyboardHook.allowOnTextInput) THEN NO_TAGS ELSE TEXT_INPUT_TAGS)

\* The filter predicate of handleKeypressEvent (part_001): no allowWhen gate.
keypressHookFilter(keypressHook, e) ==
    LET expectedKeypress == getFirstFromArrayOrItem(keypressHook.keyboardEvent)
    IN  /\ expectedKeypress # NULL
        /\ keypressHookMatch(e, expectedKeypress,
                     IF Truthy(keypressHook.allowOnTextInput) THEN NO_TAGS ELSE TEXT_INPUT_TAGS)

isModifierKey(e) == e.key \in MODIFIERS

noOp(e) ==
    [kind |-> "modifier", survivors |-> <<>>, invoked |-> <<>>, prevented |-> FALSE,
     sequence |-> currentSequence, candidates |-> candidateHooks]

\* A no-match that starts over in the same tick: the event is matched again
\* against the first steps of the full hook list.
noMatch_StartFresh(e) ==
    LET fresh == SelectSeq(keyboardHooks, LAMBDA h : keypressHookFilter(h, e))
    IN  IF Len(fresh) = 0
        THEN [kind |-> "reset", survivors |-> <<>>, invoked |-> <<>>,
              prevented |-> FALSE, sequence |-> <<>>, candidates |-> candidateHooks]
        ELSE updateCandidatesAndMaybeExecuteHooks(fresh, e)

\* A no-match that keeps the typed keys and adds the new one.
noMatch_Append(e) ==
    [kind |-> "reset", survivors |-> <<>>, invoked |-> <<>>, prevented |-> FALSE,
     sequence |-> Append(currentSequence, keyboardEventToTypedKey(e)),
     candidates |-> candidateHooks]

\* No matches, clear the current sequence.
noMatch(e) ==
    [kind |-> "reset", survivors |-> <<>>, invoked |-> <<>>, prevented |-> FALSE,
     sequence |-> <<>>, candidates |-> candidateHooks]

\* Early completion that short-circuits only a hook on its last step and
\* otherwise advances as usual.
earlyCompletion_FinalStepOnly(localCandidateHooks, e) ==
    IF Len(localCandidateHooks[1].keyboardEvent.steps) <= 1
    THEN [kind |-> "early", survivors |-> localCandidateHooks,
          invoked |-> executeKeyboardHook(localCandidateHooks[1]).invoked,
          prevented |-> executeKeyboardHook(localCandidateHooks[1]).prevented,
          sequence |-> <<>>, candidates |-> candidateHooks]
    ELSE updateCandidatesAndMaybeExecuteHooks(localCandidateHooks, e)

\* The early-completion branch of handleKeypressEvent.
earlyCompletion(localCandidateHooks, e) ==
    IF executeKeyboardHook(localCandidateHooks[1]).threw
    THEN threwInCallback(localCandidateHooks,
                         executeKeyboardHook(localCandidateHooks[1]).invoked)
    ELSE [kind |-> "early", survivors |-> localCandidateHooks,
          invoked |-> executeKeyboardHook(localCandidateHooks[1]).invoked,
          prevented |-> executeKeyboardHook(localCandidateHooks[1]).prevented,
          sequence |-> <<>>, candidates |-> candidateHooks]

handleKeyboardEvent(e) ==
    IF isModifierKey(e)
    THEN noOp(e)
    ELSE LET localCandidateHooks ==
                 SelectSeq(candidatePool, LAMBDA h : keyboardHookFilter(h, e))
         IN  IF Len(localCandidateHooks) = 0
             THEN noMatch(e)
             ELSE updateCandidatesAndMaybeExecuteHooks(localCandidateHooks, e)

\* handleKeypressEvent that takes the early-completion branch whatever the
\* allowEarlyCompletion option says.
handleKeypressEvent_AlwaysEarly(e) ==
    IF isModifierKey(e)
    THEN noOp(e)
    ELSE LET localCandidateHooks ==
                 SelectSeq(candidatePool, LAMBDA h : keypressHookFilter(h, e))
         IN  IF Len(localCandidateHooks) = 0
             THEN noMatch(e)
             ELSE IF Len(localCandidateHooks) = 1
                  THEN earlyCompletion(localCandidateHooks, e)
                  ELSE updateCandidatesAndMaybeExecuteHooks(localCandidateHooks, e)

handleKeypressEvent(e) ==
    IF isModifierKey(e)
    THEN noOp(e)
    ELSE LET localCandidateHooks ==
                 SelectSeq(candidatePool, LAMBDA h : keypressHookFilter(h, e))
         IN  IF Len(localCandidateHooks) = 0
             THEN noMatch(e)
             ELSE IF allowEarlyCompletion /\ Len(localCandidateHooks) = 1
                  THEN earlyCompletion(localCandidateHooks, e)
                  ELSE updateCandidatesAndMaybeExecuteHooks(localCandidateHooks, e)

-----------------------------------------------------------------------------
\* State machine.

Init ==
    /\ variant \in {"index", "part_001"}
    /\ allowEarlyCompletion \in (IF variant = "index" THEN {FALSE} ELSE BOOLEAN)
    /\ escapeToExitSequence = TRUE
    /\ keyboardHooks \in HookLists
    /\ candidateHooks = keyboardHooks
    /\ currentSequence = <<>>
    /\ trace = <<>>

\* The component mounted with a hook list in which a descriptor carries a
\* contextName.
InitContext ==
    /\ variant \in {"index", "part_001"}
    /\ allowEarlyCompletion \in (IF variant = "index" THEN {FALSE} ELSE BOOLEAN)
    /\ escapeToExitSequence = TRUE
    /\ keyboardHooks \in HookListsContext
    /\ candidateHooks = keyboardHooks
    /\ currentSequence = <<>>
    /\ trace = <<>>

\* The component mounted for the runs in which the caller renews a callback.
InitCallback ==
    /\ variant \in {"index", "part_001"}
    /\ allowEarlyCompletion \in (IF variant = "index" THEN {FALSE} ELSE BOOLEAN)
    /\ escapeToExitSequence = TRUE
    /\ keyboardHooks \in HookListsCallback
    /\ candidateHooks = keyboardHooks
    /\ currentSequence = <<>>
    /\ trace = <<>>

\* The component mounted with a hook list in which a callback throws.
InitThrow ==
    /\ variant \in {"index", "part_001"}
    /\ allowEarlyCompletion \in (IF variant = "index" THEN {FALSE} ELSE BOOLEAN)
    /\ escapeToExitSequence = TRUE
    /\ keyboardHooks \in HookListsThrow
    /\ candidateHooks = keyboardHooks
    /\ currentSequence = <<>>
    /\ trace = <<>>

\* index.tsx mounted with a hook list in which an allowWhen depends on state.
InitGate ==
    /\ variant = "index"
    /\ allowEarlyCompletion = FALSE
    /\ escapeToExitSequence = TRUE
    /\ keyboardHooks \in HookListsGate
    /\ candidateHooks = keyboardHooks
    /\ currentSequence = <<>>
    /\ trace = <<>>

\* The component mounted for the runs over FlagEvents.
InitFlags ==
    /\ variant \in {"index", "part_001"}
    /\ allowEarlyCompletion \in (IF variant = "index" THEN {FALSE} ELSE BOOLEAN)
    /\ escapeToExitSequence = TRUE
    /\ keyboardHooks \in HookListsFlags
    /\ candidateHooks = keyboardHooks
    /\ currentSequence = <<>>
    /\ trace = <<>>

\* A listener that advances in place: the suffix of each advanced hook is
\* written into the hook of the registered list.
Deliver_InPlace(e, out) ==
    /\ currentSequence' = out.sequence
    /\ candidateHooks' = out.candidates
    /\ keyboardHooks' =
           IF out.kind = "advanced"
           THEN [i \in DOMAIN keyboardHooks |->
                    IF \E c \in DOMAIN out.candidates :
                           out.candidates[c].callback = keyboardHooks[i].callback
                    THEN out.candidates[CHOOSE c \in DOMAIN out.candidates :
                             out.candidates[c].callback = keyboardHooks[i].callback]
                    ELSE keyboardHooks[i]]
           ELSE keyboardHooks
    /\ trace' = Append(trace,
                       [e |-> e, pending |-> Len(currentSequence) > 0,
                        hooks |-> keyboardHooks,
                        kind |-> out.kind, survivors |-> out.survivors,
                        invoked |-> out.invoked, prevented |-> out.prevented,
                        sequence |-> out.sequence, candidates |-> out.candidates])
    /\ UNCHANGED <<variant, allowEarlyCompletion, escapeToExitSequence>>

\* The listener runs on event e, to its end or to the throw of a callback,
\* and the component re-renders.
Deliver(e, out) ==
    /\ currentSequence' = out.sequence
    /\ candidateHooks' = out.candidates
    /\ trace' = Append(trace,
                       [e |-> e, pending |-> Len(currentSequence) > 0,
                        hooks |-> keyboardHooks,
                        kind |-> out.kind, survivors |-> out.survivors,
                        invoked |-> out.invoked, prevented |-> out.prevented,
                        sequence |-> out.sequence, candidates |-> out.candidates])
    /\ UNCHANGED <<variant, allowEarlyCompletion, escapeToExitSequence, keyboardHooks>>

KeyboardEvent ==
    /\ variant = "index"
    /\ Len(trace) < MaxEvents
    /\ \E e \in Events : Deliver(e, handleKeyboardEvent(e))

KeypressEvent ==
    /\ variant = "part_001"
    /\ Len(trace) < MaxEvents
    /\ \E e \in Events : Deliver(e, handleKeypressEvent(e))

\* The same two listeners on the events of FlagEvents.
KeyboardEventWithFlags ==
    /\ variant = "index"
    /\ Len(trace) < MaxFlagEvents
    /\ \E e \in FlagEvents : Deliver(e, handleKeyboardEvent(e))

KeypressEventWithFlags ==
    /\ variant = "part_001"
    /\ Len(trace) < MaxFlagEvents
    /\ \E e \in FlagEvents : Deliver(e, handleKeypressEvent(e))

\* The caller re-renders with a hook list in which the state-dependent
\* allowWhen of one hook has changed (README: allowWhen: colorTheme === DARK).
SetAllowWhen ==
    /\ variant = "index"
    /\ \E i \in DOMAIN keyboardHooks :
          /\ keyboardHooks[i].allowWhen \in {"true", "false"}
          /\ keyboardHooks' =
                 [keyboardHooks EXCEPT ![i].allowWhen =
                      IF keyboardHooks[i].allowWhen = "true" THEN "false" ELSE "true"]
    /\ UNCHANGED <<variant, allowEarlyCompletion, escapeToExitSequence, candidateHooks, currentSequence, trace>>

\* The state React holds: what the setState calls of the listener calls so
\* far have left.  currentSequence and candidateHooks are the values of the
\* last render, which the subscribed listener closes over.
committedState ==
    IF trace = <<>>
    THEN [sequence |-> currentSequence, candidates |-> candidateHooks]
    ELSE [sequence |-> trace[Len(trace)].sequence,
          candidates |-> trace[Len(trace)].candidates]

\* The subscribed listener runs on event e while the component has not
\* re-rendered since the last event: it reads the values it closed over,
\* and its setCurrentSequence and setCandidateHooks calls replace React's
\* state; the state it does not set keeps its value.
DeliverBeforeRerender(e, out) ==
    /\ trace' = Append(trace,
                       [e |-> e, pending |-> Len(currentSequence) > 0,
                        hooks |-> keyboardHooks,
                        kind |-> out.kind, survivors |-> out.survivors,
                        invoked |-> out.invoked, prevented |-> out.prevented,
                        sequence |-> IF out.kind \in {"modifier", "threw"}
                                     THEN committedState.sequence
                                     ELSE out.sequence,
                        candidates |-> IF out.kind = "advanced"
                                       THEN out.candidates
                                       ELSE committedState.candidates])
    /\ UNCHANGED <<variant, allowEarlyCompletion, escapeToExitSequence, keyboardHooks,
                   candidateHooks, currentSequence>>

KeyboardEventBeforeRerender ==
    /\ variant = "index"
    /\ Len(trace) < MaxEvents
    /\ \E e \in Events : DeliverBeforeRerender(e, handleKeyboardEvent(e))

KeypressEventBeforeRerender ==
    /\ variant = "part_001"
    /\ Len(trace) < MaxEvents
    /\ \E e \in Events : DeliverBeforeRerender(e, handleKeypressEvent(e))

\* The component re-renders with React's state and the effect subscribes
\* the listener of that render.
Rerender ==
    /\ <<currentSequence, candidateHooks>> #
           <<committedState.sequence, committedState.candidates>>
    /\ currentSequence' = committedState.sequence
    /\ candidateHooks' = committedState.candidates
    /\ UNCHANGED <<variant, allowEarlyCompletion, escapeToExitSequence, keyboardHooks, trace>>

\* The caller re-renders with a hook list in which one hook has a new
\* callback for the same pattern (README: useCallback with a dependency).
SetCallback ==
    /\ \E i \in DOMAIN keyboardHooks :
          /\ keyboardHooks[i].callback \in {"B", "n", "long"}
          /\ keyboardHooks' =
                 [keyboardHooks EXCEPT ![i].callback = renewedCallback(@)]
    /\ UNCHANGED <<variant, allowEarlyCompletion, escapeToExitSequence, candidateHooks, currentSequence, trace>>

Next == KeyboardEvent \/ KeypressEvent

Spec == Init /\ [][Next]_vars

SpecThrow == InitThrow /\ [][Next]_vars

NextStale == KeyboardEventBeforeRerender \/ KeypressEventBeforeRerender \/ Rerender

SpecStale == Init /\ [][NextStale]_vars

NextCallback == KeyboardEvent \/ KeypressEvent \/ SetCallback

SpecCallback == InitCallback /\ [][NextCallback]_vars

SpecContext == InitContext /\ [][Next]_vars

NextDyn == KeyboardEvent \/ KeypressEvent \/ SetAllowWhen

SpecDyn == Init /\ [][NextDyn]_vars

NextFlags == KeyboardEventWithFlags \/ KeypressEventWithFlags

SpecFlags == InitFlags /\ [][NextFlags]_vars

NextGate == KeyboardEvent \/ SetAllowWhen

SpecGate == InitGate /\ [][NextGate]_vars

-----------------------------------------------------------------------------
\* The ReactKeyboardNav component (src/ReactKeyboardNav.tsx): the matcher of
\* part_001 with the escapeToExitSequence option.  Its currentSequence holds
\* the events themselves.

ESCAPE == "Escape"

KeyEscape == [key |-> ESCAPE]

\* A two-step hook whose second step is the Escape key.
HookEsc == Hook(TRUE, <<KeyL, KeyEscape>>, "esc", "undefined", "undefined", "undefined")

\* A single descriptor: the Escape key alone.
HookQuit == Hook(FALSE, <<KeyEscape>>, "quit", "undefined", "true", "undefined")

HookListsNav == {<<HookEsc, HookB>>, <<HookQuit, HookB>>}

NavEvents ==
    { Ev("l", FALSE, FALSE, FALSE, FALSE, "DIV"),
      Ev("o", FALSE, FALSE, FALSE, FALSE, "DIV"),
      Ev(ESCAPE, FALSE, FALSE, FALSE, FALSE, "DIV"),
      Ev(ESCAPE, FALSE, FALSE, FALSE, FALSE, "INPUT"),
      Ev(META, TRUE, FALSE, FALSE, FALSE, "DIV"),
      Ev("Shift", FALSE, FALSE, FALSE, TRUE, "DIV") }

\* clearCurrentSequence() of the Escape branch: setCurrentSequence([]).
clearCurrentSequence ==
    [kind |-> "escape", survivors |-> <<>>, invoked |-> <<>>, prevented |-> FALSE,
     sequence |-> <<>>, candidates |-> candidateHooks]

addKeyboardEventToCurrentSequence(keyboardEvent) ==
    Append(currentSequence, keyboardEvent)

navUpdateCandidatesAndMaybeExecuteHooks(localCandidateHooks, e) ==
    LET r == updateLoop(localCandidateHooks, 1, <<>>)
    IN  IF r.threw
        THEN threwInCallback(localCandidateHooks, r.invoked)
        ELSE IF r.fired
        THEN [kind |-> "fired", survivors |-> localCandidateHooks,
              invoked |-> r.invoked, prevented |-> r.prevented,
              sequence |-> <<>>, candidates |-> candidateHooks]
        ELSE [kind |-> "advanced", survivors |-> localCandidateHooks,
              invoked |-> <<>>, prevented |-> FALSE,
              sequence |-> addKeyboardEventToCurrentSequence(e),
              candidates |-> r.newCandidates]

navHandleKeypressEvent(e) ==
    IF e.key = ESCAPE /\ escapeToExitSequence
    THEN clearCurrentSequence
    ELSE IF isModifierKey(e)
    THEN noOp(e)
    ELSE LET localCandidateHooks ==
                 SelectSeq(candidatePool, LAMBDA h : keypressHookFilter(h, e))
         IN  IF Len(localCandidateHooks) = 0
             THEN noMatch(e)
             ELSE IF allowEarlyCompletion /\ Len(localCandidateHooks) = 1
                  THEN earlyCompletion(localCandidateHooks, e)
                  ELSE navUpdateCandidatesAndMaybeExecuteHooks(localCandidateHooks, e)

\* Any of the three components mounted with a hook list in which a step is
\* the Escape key.
InitNav ==
    /\ variant \in {"index", "part_001", "ReactKeyboardNav"}
    /\ allowEarlyCompletion \in (IF variant = "index" THEN {FALSE} ELSE BOOLEAN)
    /\ escapeToExitSequence \in (IF variant = "ReactKeyboardNav" THEN BOOLEAN ELSE {TRUE})
    /\ keyboardHooks \in HookListsNav
    /\ candidateHooks = keyboardHooks
    /\ currentSequence = <<>>
    /\ trace = <<>>

NavKeypressEvent ==
    /\ variant = "ReactKeyboardNav"
    /\ Len(trace) < MaxEvents
    /\ \E e \in NavEvents : Deliver(e, navHandleKeypressEvent(e))

NextNav == KeyboardEvent \/ KeypressEvent \/ NavKeypressEvent

SpecNav == InitNav /\ [][NextNav]_vars

TypeOK ==
    /\ variant \in {"index", "part_001", "ReactKeyboardNav"}
    /\ allowEarlyCompletion \in BOOLEAN
    /\ escapeToExitSequence \in BOOLEAN
    /\ Len(trace) <= MaxEvents
    /\ Len(currentSequence) <= Len(trace)

-----------------------------------------------------------------------------
\* Vocabulary of the properties, stated on the events and the registered
\* hooks and not through the handlers' code.

Steps(h) == h.keyboardEvent.steps

\* The event has every attribute the descriptor names, with an equal value.
Matches(e, d) == \A k \in DOMAIN d : k \in DOMAIN e /\ e[k] = d[k]

IsFromTextEntry(e) == e.target.tagName \in {"INPUT", "TEXTAREA", "input", "textarea"}

IsPureModifier(e) == e.key \in {"Meta", "Alt", "Control"}

Enabled(h) == h.allowWhen \in {"undefined", "true"}

\* Event e satisfies step k of hook h: gate open, descriptor matched, and
\* the text-entry rule respected.
Satisfies(e, h, k) ==
    /\ Enabled(h)
    /\ k \in DOMAIN Steps(h)
    /\ Matches(e, Steps(h)[k])
    /\ (Truthy(h.allowOnTextInput) \/ ~IsFromTextEntry(e))

\* The typed sequence before event j was consumed.
SequenceBefore(j) == IF j = 1 THEN <<>> ELSE trace[j - 1].sequence

\* candidateHooks before event j was consumed.
CandidatesBefore(j) == IF j = 1 THEN trace[j].hooks ELSE trace[j - 1].candidates

Callbacks(hooks) == {hooks[i].callback : i \in DOMAIN hooks}

Range(s) == {s[i] : i \in DOMAIN s}

\* a is a one-step hook and b a two-step hook with the same first step.
PrefixCollision(a, b) ==
    /\ Len(Steps(a)) = 1
    /\ Len(Steps(b)) = 2
    /\ Steps(a)[1] = Steps(b)[1]

\* Event j arrives in Idle and satisfies the first step of both hooks of a
\* prefix collision <<a, b>> that make up the registered list.
CollisionAt(j, a, b) ==
    /\ ~allowEarlyCompletion
    /\ Len(keyboardHooks) = 2
    /\ {a, b} = DOMAIN keyboardHooks
    /\ PrefixCollision(keyboardHooks[a], keyboardHooks[b])
    /\ ~trace[j].pending
    /\ Satisfies(trace[j].e, keyboardHooks[a], 1)
    /\ Satisfies(trace[j].e, keyboardHooks[b], 1)

\* C1 as stated: with A = [l] and B = [l, o] registered and no early
\* completion, an event matching l consumed in Idle does not invoke A and
\* leaves both pending; a following event matching o invokes B, and any
\* other following non-modifier event resets without invoking anything.
C1_BothStayPending ==
    \A j \in DOMAIN trace : \A a, b \in DOMAIN keyboardHooks :
        CollisionAt(j, a, b) =>
            /\ trace[j].invoked = <<>>
            /\ Callbacks(trace[j].candidates) = Callbacks(keyboardHooks)
            /\ trace[j].sequence # <<>>
            /\ (j + 1 \in DOMAIN trace /\ ~IsPureModifier(trace[j + 1].e)) =>
                   IF Satisfies(trace[j + 1].e, keyboardHooks[b], 2)
                   THEN trace[j + 1].invoked = <<keyboardHooks[b].callback>>
                   ELSE trace[j + 1].invoked = <<>> /\ trace[j + 1].sequence = <<>>

\* C1 amended: in that situation the one-step hook A completes on the event
\* matching l: A's action is invoked once, the typed sequence stays empty, B
\* does not become pending, and the following event is matched from Idle, so
\* an event matching o does not invoke B's action.
C1_ShortHookFiresFirst ==
    \A j \in DOMAIN trace : \A a, b \in DOMAIN keyboardHooks :
        CollisionAt(j, a, b) =>
            /\ trace[j].invoked = <<keyboardHooks[a].callback>>
            /\ trace[j].sequence = <<>>
            /\ j + 1 \in DOMAIN trace =>
                   /\ ~trace[j + 1].pending
                   /\ keyboardHooks[b].callback \notin Range(trace[j + 1].invoked)

\* The collision happened and the event matching o followed.
C1_Witness ==
    \E j \in DOMAIN trace : \E a, b \in DOMAIN keyboardHooks :
        /\ CollisionAt(j, a, b)
        /\ j + 1 \in DOMAIN trace
        /\ Matches(trace[j + 1].e, Steps(keyboardHooks[b])[2])

-----------------------------------------------------------------------------
\* The accepted events: the trace without the pure modifier keypresses.
Accepted == SelectSeq(trace, LAMBDA t : ~IsPureModifier(t.e))

\* The accepted events m-n+1 .. m start in Idle and match the n steps of
\* hook h in order.
CompletedBy(h, acc, m) ==
    LET n == Len(Steps(h))
    IN  /\ n >= 1
        /\ m >= n
        /\ ~acc[m - n + 1].pending
        /\ \A k \in 1..n : Matches(acc[m - n + k].e, Steps(h)[k])

\* C2: with a fixed hook list and no early completion, an event invokes at
\* most one action, and it invokes the action of a hook only when the event
\* matches the hook's last step and the accepted events right before it,
\* starting from Idle, matched the earlier steps in order.
C2_FiresOnlyOnCompletedPattern ==
    ~allowEarlyCompletion =>
        \A m \in DOMAIN Accepted :
            /\ Len(Accepted[m].invoked) <= 1
            /\ \A c \in Range(Accepted[m].invoked) :
                   \E i \in DOMAIN keyboardHooks :
                       /\ keyboardHooks[i].callback = c
                       /\ CompletedBy(keyboardHooks[i], Accepted, m)

\* A three-step hook fired on the third of three accepted events.
C2_Witness ==
    /\ ~allowEarlyCompletion
    /\ \E m \in DOMAIN Accepted : \E i \in DOMAIN keyboardHooks :
           /\ Len(Steps(keyboardHooks[i])) = 3
           /\ Accepted[m].invoked = <<keyboardHooks[i].callback>>

-----------------------------------------------------------------------------
\* Hook i of the registered list had its first step consumed by event j - 1
\* in Idle while enabled, is a pattern of two or more steps, and is disabled
\* in the registered list when event j arrives.
DisabledMidSequence(i, j) ==
    /\ j - 1 \in DOMAIN trace
    /\ i \in DOMAIN trace[j].hooks
    /\ i \in DOMAIN trace[j - 1].hooks
    /\ trace[j].hooks[i].callback = trace[j - 1].hooks[i].callback
    /\ Len(Steps(trace[j].hooks[i])) >= 2
    /\ ~trace[j - 1].pending
    /\ Satisfies(trace[j - 1].e, trace[j - 1].hooks[i], 1)
    /\ trace[j - 1].sequence # <<>>
    /\ ~Enabled(trace[j].hooks[i])

\* C3: a hook disabled between the first and the second event of its own
\* pattern is excluded from the second event's candidate pool: the event
\* neither advances nor fires it.
C3_DisabledHookLeavesPool ==
    \A j \in DOMAIN trace : \A i \in DOMAIN trace[j].hooks :
        DisabledMidSequence(i, j) =>
            /\ trace[j].hooks[i].callback \notin Range(trace[j].invoked)
            /\ trace[j].hooks[i].callback \notin Callbacks(trace[j].survivors)

-----------------------------------------------------------------------------
\* Exactly one hook survived the filter on event j, with more than one step
\* of its pattern left.
SoleSurvivorMidPattern(j) ==
    /\ Len(trace[j].survivors) = 1
    /\ Len(Steps(trace[j].survivors[1])) > 1

\* C4 as stated: with allowEarlyCompletion=true, a sole survivor with more
\* than one step left is not fired; it advances by one step and the matcher
\* is Pending.
C4_NoSkipOfIntermediateSteps ==
    allowEarlyCompletion =>
        \A j \in DOMAIN trace :
            SoleSurvivorMidPattern(j) =>
                /\ trace[j].invoked = <<>>
                /\ Len(trace[j].sequence) = Len(SequenceBefore(j)) + 1
                /\ Steps(trace[j].candidates[1]) = Tail(Steps(trace[j].survivors[1]))

\* C4 amended: with allowEarlyCompletion=true, a sole survivor is fired on
\* that event although more than one step of its pattern is left: its
\* action is invoked once, the remaining steps are skipped and the typed
\* sequence is empty afterwards.
C4_SoleSurvivorFiresMidPattern ==
    allowEarlyCompletion =>
        \A j \in DOMAIN trace :
            SoleSurvivorMidPattern(j) =>
                /\ trace[j].invoked = <<trace[j].survivors[1].callback>>
                /\ trace[j].sequence = <<>>

\* With early completion on, a sole survivor with two steps left was met in
\* the middle of a sequence.
C4_Witness ==
    /\ allowEarlyCompletion
    /\ \E j \in DOMAIN trace : SoleSurvivorMidPattern(j) /\ trace[j].pending

-----------------------------------------------------------------------------
\* C5: with allowEarlyCompletion=true an event after which one hook is the
\* only remaining candidate resolves that hook: its action is invoked and
\* the typed sequence is cleared, however many steps of its pattern remain.
\* Without early completion an action is invoked only by a hook that had a
\* single step left.
C5_EarlyCompletionResolvesSoleCandidate ==
    \A j \in DOMAIN trace :
        /\ (allowEarlyCompletion /\ Len(trace[j].survivors) = 1) =>
               /\ trace[j].invoked = <<trace[j].survivors[1].callback>>
               /\ trace[j].sequence = <<>>
        /\ (~allowEarlyCompletion /\ trace[j].invoked # <<>>) =>
               \E i \in DOMAIN trace[j].survivors :
                   /\ trace[j].survivors[i].callback = trace[j].invoked[1]
                   /\ Len(Steps(trace[j].survivors[i])) = 1

\* With early completion on, the first key of a two-step hook that is the
\* only hook it matches resolved that hook from Idle.
C5_Witness ==
    /\ allowEarlyCompletion
    /\ \E j \in DOMAIN trace :
           /\ ~trace[j].pending
           /\ Len(trace[j].survivors) = 1
           /\ Len(Steps(trace[j].survivors[1])) = 2
           /\ trace[j].invoked = <<trace[j].survivors[1].callback>>

-----------------------------------------------------------------------------
\* The step consumes an event.
EventStep == Len(trace') = Len(trace) + 1

LastEntry == trace[Len(trace)]

\* C6: consuming an event whose key is Meta, Alt or Control, in Idle or in
\* Pending, invokes no action, is not a reset, and leaves candidateHooks and
\* currentSequence exactly as they were; the event after it is matched as
\* if the modifier had not been pressed.
C6_ModifierOnlyIsTransparent ==
    [][ (EventStep /\ IsPureModifier(LastEntry'.e)) =>
            /\ candidateHooks' = candidateHooks
            /\ currentSequence' = currentSequence
            /\ LastEntry'.invoked = <<>>
            /\ LastEntry'.prevented = FALSE
            /\ LastEntry'.kind # "reset"
      ]_vars

\* A pure modifier keypress arrived in the middle of a sequence and the key
\* after it completed the sequence.
C6_Witness ==
    \E j \in DOMAIN trace :
        /\ IsPureModifier(trace[j].e)
        /\ trace[j].pending
        /\ j + 1 \in DOMAIN trace
        /\ trace[j + 1].pending
        /\ trace[j + 1].kind = "fired"

-----------------------------------------------------------------------------
\* C7: a pure Shift keypress is discarded like the other pure modifier
\* keypresses: it invokes nothing and leaves the typed sequence and the
\* candidates as they were, so that a shifted next step can still follow.
C7_ShiftKeypressIsDiscarded ==
    \A j \in DOMAIN trace :
        trace[j].e.key = "Shift" =>
            /\ trace[j].invoked = <<>>
            /\ trace[j].sequence = SequenceBefore(j)
            /\ trace[j].candidates = CandidatesBefore(j)
            /\ \A i \in DOMAIN keyboardHooks :
                   (/\ Len(keyboardHooks) = 1
                    /\ Len(Steps(keyboardHooks[i])) = 2
                    /\ j - 1 \in DOMAIN trace
                    /\ ~trace[j - 1].pending
                    /\ Satisfies(trace[j - 1].e, keyboardHooks[i], 1)
                    /\ trace[j - 1].sequence # <<>>
                    /\ j + 1 \in DOMAIN trace
                    /\ Satisfies(trace[j + 1].e, keyboardHooks[i], 2))
                   => trace[j + 1].invoked = <<keyboardHooks[i].callback>>

-----------------------------------------------------------------------------
\* Event j arrives in Pending, is no pure modifier keypress and satisfies
\* the next step of none of the candidates.
NoMatchInPending(j) ==
    /\ trace[j].pending
    /\ ~IsPureModifier(trace[j].e)
    /\ \A i \in DOMAIN CandidatesBefore(j) :
           ~Satisfies(trace[j].e, CandidatesBefore(j)[i], 1)

\* Event n is the first event after event j that is no pure modifier keypress.
NextAccepted(j, n) ==
    /\ n \in DOMAIN trace
    /\ n > j
    /\ ~IsPureModifier(trace[n].e)
    /\ \A m \in (j + 1)..(n - 1) : IsPureModifier(trace[m].e)

\* The registered hooks whose first step event e satisfies, in registration
\* order.
FirstStepMatches(hooks, e) == SelectSeq(hooks, LAMBDA h : Satisfies(e, h, 1))

\* C8 as stated: a no-match in Pending invokes no action and empties both
\* the candidates and the typed sequence, and the next event is matched
\* against the first steps of the full registered hook list.
C8_NoMatchEmptiesCandidates ==
    \A j \in DOMAIN trace :
        NoMatchInPending(j) =>
            /\ trace[j].invoked = <<>>
            /\ trace[j].sequence = <<>>
            /\ trace[j].candidates = <<>>
            /\ \A n \in DOMAIN trace :
                   NextAccepted(j, n) =>
                       trace[n].survivors = FirstStepMatches(trace[n].hooks, trace[n].e)

\* C8 amended: a no-match in Pending invokes no action and empties the typed
\* sequence; candidateHooks keeps the value it had, but it is not read while
\* the typed sequence is empty: the next event is matched against the first
\* steps of the full registered hook list.
C8_NoMatchClearsSequence ==
    \A j \in DOMAIN trace :
        NoMatchInPending(j) =>
            /\ trace[j].invoked = <<>>
            /\ trace[j].sequence = <<>>
            /\ trace[j].candidates = CandidatesBefore(j)
            /\ \A n \in DOMAIN trace :
                   NextAccepted(j, n) =>
                       /\ ~trace[n].pending
                       /\ trace[n].survivors = FirstStepMatches(trace[n].hooks, trace[n].e)

\* After a no-match in Pending the next event matched a first step of the
\* registered list and started a new sequence.
C8_Witness ==
    \E j, n \in DOMAIN trace :
        /\ NoMatchInPending(j)
        /\ NextAccepted(j, n)
        /\ trace[n].kind = "advanced"
        /\ trace[j].candidates # <<>>

\* C9: an event that arrives in Pending and matches no candidate's next step
\* fires and advances nothing in that tick, also when it matches the first
\* step of a registered hook; the typed sequence is empty afterwards.
C9_AbortDoesNotStartFresh ==
    \A j \in DOMAIN trace :
        (NoMatchInPending(j) /\ FirstStepMatches(trace[j].hooks, trace[j].e) # <<>>) =>
            /\ trace[j].kind = "reset"
            /\ trace[j].survivors = <<>>
            /\ trace[j].invoked = <<>>
            /\ ~trace[j].prevented
            /\ trace[j].sequence = <<>>

\* A sequence was aborted by an event that matches the first step of a
\* registered hook.
C9_Witness ==
    \E j \in DOMAIN trace :
        /\ NoMatchInPending(j)
        /\ FirstStepMatches(trace[j].hooks, trace[j].e) # <<>>

-----------------------------------------------------------------------------
\* The display token of an event: the symbols of the modifier flags set on
\* it, in the order meta, alt, control, shift, followed by its key.
FlagOrder == <<"metaKey", "altKey", "ctrlKey", "shiftKey">>

FlagSymbol == [metaKey |-> "<cmd>", altKey |-> "<opt>", ctrlKey |-> "^", shiftKey |-> "<shift>"]

RECURSIVE SymbolsFrom(_, _)
SymbolsFrom(e, i) ==
    IF i > Len(FlagOrder)
    THEN ""
    ELSE (IF e[FlagOrder[i]] THEN FlagSymbol[FlagOrder[i]] ELSE "") \o SymbolsFrom(e, i + 1)

DisplayToken(e) == SymbolsFrom(e, 1) \o e.key

\* The accepted events i .. i+k-1 start in Idle and satisfy the first k
\* steps of hook h, a pattern of two or more steps.
TypedPrefix(h, i, k) ==
    /\ Len(Steps(h)) >= 2
    /\ k \in 1..Len(Steps(h))
    /\ i + k - 1 \in DOMAIN Accepted
    /\ ~Accepted[i].pending
    /\ \A m \in 1..k : Satisfies(Accepted[i + m - 1].e, h, m)

\* No hook other than hook x is completed by a prefix of the accepted
\* events i .. i+k-1.
NoOtherHookCompletes(x, i, k) ==
    \A g \in DOMAIN keyboardHooks \ {x} :
        LET n == Len(Steps(keyboardHooks[g]))
        IN  ~(/\ n \in 1..k
              /\ \A m \in 1..n : Satisfies(Accepted[i + m - 1].e, keyboardHooks[g], m))

\* What C10 asserts of hook x and the accepted events i .. i+k-1.
MultiStepOutcome(x, i, k) ==
    LET h == keyboardHooks[x]
        last == Accepted[i + k - 1]
    IN  IF k < Len(Steps(h))
        THEN /\ \A m \in 1..k : Accepted[i + m - 1].invoked = <<>>
             /\ last.sequence =
                    [m \in 1..k |->
                        [event |-> Accepted[i + m - 1].e,
                         basicRepresentation |-> DisplayToken(Accepted[i + m - 1].e)]]
        ELSE /\ last.invoked = <<h.callback>>
             /\ last.sequence = <<>>

\* C10 as stated: for an enabled hook with an n-step pattern, n >= 2, that
\* is the only hook the typed keys complete, after k < n matching events
\* from Idle no action has been invoked and the current sequence is those k
\* events in arrival order, each with its display token; the n-th matching
\* event invokes the action once and clears the current sequence.
C10_MultiStepSequence ==
    \A x \in DOMAIN keyboardHooks : \A i \in DOMAIN Accepted : \A k \in 1..MaxEvents :
        (TypedPrefix(keyboardHooks[x], i, k) /\ NoOtherHookCompletes(x, i, k)) =>
            MultiStepOutcome(x, i, k)

\* C10 amended: the same, when early completion is not enabled.
C10_MultiStepSequenceNoEarlyCompletion ==
    ~allowEarlyCompletion => C10_MultiStepSequence

\* Without early completion a three-step hook was typed in full: two keys
\* shown in the current sequence, then the third fired it.
C10_Witness ==
    /\ ~allowEarlyCompletion
    /\ \E x \in DOMAIN keyboardHooks : \E i \in DOMAIN Accepted :
           /\ Len(Steps(keyboardHooks[x])) = 3
           /\ TypedPrefix(keyboardHooks[x], i, 3)
           /\ NoOtherHookCompletes(x, i, 3)
           /\ Len(Accepted[i + 1].sequence) = 2
           /\ Accepted[i + 2].invoked = <<keyboardHooks[x].callback>>

-----------------------------------------------------------------------------
\* Hook i of the list registered at event j has a one-descriptor pattern and
\* is enabled; event j arrives in Idle, does not come from a text-entry
\* element and matches the descriptor; no one-step hook registered before
\* hook i is satisfied by the event.
SingleStepMatch(j, i) ==
    LET hooks == trace[j].hooks
    IN  /\ Len(Steps(hooks[i])) = 1
        /\ Enabled(hooks[i])
        /\ ~trace[j].pending
        /\ ~IsFromTextEntry(trace[j].e)
        /\ Matches(trace[j].e, Steps(hooks[i])[1])
        /\ \A g \in 1..(i - 1) :
               ~(Len(Steps(hooks[g])) = 1 /\ Satisfies(trace[j].e, hooks[g], 1))

\* C11: an enabled hook whose pattern is one descriptor, given as a single
\* descriptor or as a one-element list, is fired by a matching event consumed
\* in Idle that does not come from a text-entry element, when no
\* earlier-registered one-step hook matches the event: its action is invoked
\* exactly once, no other action is invoked, the typed sequence is empty
\* afterwards and the next event is consumed in Idle.
C11_SingleStepMatch ==
    \A j \in DOMAIN trace : \A i \in DOMAIN trace[j].hooks :
        SingleStepMatch(j, i) =>
            /\ trace[j].invoked = <<trace[j].hooks[i].callback>>
            /\ trace[j].sequence = <<>>
            /\ j + 1 \in DOMAIN trace => ~trace[j + 1].pending

\* A hook given as a single descriptor, registered after other hooks, fired
\* from Idle.
C11_Witness ==
    \E j \in DOMAIN trace : \E i \in DOMAIN trace[j].hooks :
        /\ SingleStepMatch(j, i)
        /\ ~trace[j].hooks[i].keyboardEvent.array
        /\ i > 1
        /\ trace[j].invoked = <<trace[j].hooks[i].callback>>

-----------------------------------------------------------------------------
\* The hooks event j is matched against: the candidates in the middle of a
\* sequence, the registered list in Idle.
PoolBefore(j) == IF trace[j].pending THEN CandidatesBefore(j) ELSE trace[j].hooks

\* The same event with an origin that is no text-entry element.
AsIfElsewhere(e) == [e EXCEPT !.target = [tagName |-> "DIV"]]

\* C12: for an event that comes from an input or a textarea, whatever the
\* case of the tag name, in Idle and in the middle of a sequence: a hook
\* without allowOnTextInput neither fires nor survives the event, and the
\* hooks that survive are exactly the hooks with allowOnTextInput that the
\* same event would satisfy if it came from another element.  An event from
\* another element is matched without regard to allowOnTextInput.
C12_TextEntryGating ==
    \A j \in DOMAIN trace :
        LET e == trace[j].e
            pool == PoolBefore(j)
        IN  ~IsPureModifier(e) =>
              IF IsFromTextEntry(e)
              THEN /\ \A g \in DOMAIN pool :
                          ~Truthy(pool[g].allowOnTextInput) =>
                              /\ pool[g].callback \notin Range(trace[j].invoked)
                              /\ pool[g].callback \notin Callbacks(trace[j].survivors)
                   /\ trace[j].survivors =
                          SelectSeq(pool, LAMBDA h : /\ Truthy(h.allowOnTextInput)
                                                     /\ Satisfies(AsIfElsewhere(e), h, 1))
              ELSE trace[j].survivors = SelectSeq(pool, LAMBDA h : Satisfies(e, h, 1))

\* In the middle of a sequence an event from a textarea matched the next
\* step of two candidates; the one without allowOnTextInput was left out and
\* the one with allowOnTextInput, registered after it, fired.
C12_Witness ==
    \E j \in DOMAIN trace :
        /\ trace[j].pending
        /\ IsFromTextEntry(trace[j].e)
        /\ Len(PoolBefore(j)) = 2
        /\ ~Truthy(PoolBefore(j)[1].allowOnTextInput)
        /\ Matches(trace[j].e, Steps(PoolBefore(j)[1])[1])
        /\ Truthy(PoolBefore(j)[2].allowOnTextInput)
        /\ trace[j].invoked = <<PoolBefore(j)[2].callback>>

-----------------------------------------------------------------------------
\* The hooks event j fired or advanced: every survivor when the event
\* advanced the sequence, the executed hook when it fired.
FiredOrAdvanced(j) ==
    IF trace[j].kind = "advanced"
    THEN Range(trace[j].survivors)
    ELSE {h \in Range(trace[j].survivors) : h.callback \in Range(trace[j].invoked)}

\* C13: the default action of an event is cancelled exactly when the event
\* fires or advances a hook whose preventDefault flag is set.
C13_DefaultSuppression ==
    \A j \in DOMAIN trace :
        trace[j].prevented <=> (\E h \in FiredOrAdvanced(j) : Truthy(h.preventDefault))

-----------------------------------------------------------------------------
\* C14: when the action of a hook throws on the event that completes a
\* multi-step sequence, the matcher is Idle afterwards (the typed sequence
\* is empty) and the next event that is no pure modifier keypress is matched
\* against the first steps of the full registered hook list.
C14_ThrowLeavesIdle ==
    \A j \in DOMAIN trace :
        (trace[j].pending /\ trace[j].kind = "threw") =>
            /\ trace[j].sequence = <<>>
            /\ \A n \in DOMAIN trace :
                   NextAccepted(j, n) =>
                       /\ ~trace[n].pending
                       /\ trace[n].survivors = FirstStepMatches(trace[n].hooks, trace[n].e)

-----------------------------------------------------------------------------
\* C15: a hook with an empty pattern is rejected when it is registered, so
\* no event is ever consumed by a matcher whose registered list holds a hook
\* with an empty pattern.
C15_EmptyPatternRejected ==
    \A j \in DOMAIN trace : \A i \in DOMAIN trace[j].hooks :
        Steps(trace[j].hooks[i]) # <<>>

-----------------------------------------------------------------------------
\* Hook i of the list registered at event j has its allowWhen gate false;
\* event j arrives in Idle and matches the hook's first step.
GatedOut(j, i) ==
    LET h == trace[j].hooks[i]
    IN  /\ ~Enabled(h)
        /\ ~trace[j].pending
        /\ Steps(h) # <<>>
        /\ Matches(trace[j].e, Steps(h)[1])
        /\ (Truthy(h.allowOnTextInput) \/ ~IsFromTextEntry(trace[j].e))

\* C16: a hook whose allowWhen gate is false when an event matching its
\* first step arrives in Idle is not fired by the event and is not among the
\* candidates the event leaves for the next one; when the event satisfies no
\* other registered hook, the typed sequence stays empty and the next event
\* is consumed in Idle.
C16_DisabledHookStartsNoSequence ==
    \A j \in DOMAIN trace : \A i \in DOMAIN trace[j].hooks :
        GatedOut(j, i) =>
            /\ trace[j].hooks[i].callback \notin Range(trace[j].invoked)
            /\ trace[j].hooks[i].callback \notin Callbacks(trace[j].survivors)
            /\ trace[j].sequence # <<>> =>
                   trace[j].hooks[i].callback \notin Callbacks(trace[j].candidates)
            /\ FirstStepMatches(trace[j].hooks, trace[j].e) = <<>> =>
                   /\ trace[j].sequence = <<>>
                   /\ j + 1 \in DOMAIN trace => ~trace[j + 1].pending

\* The first key of a disabled two-step hook arrived in Idle, matched no
\* other hook, and another event was consumed after it.
C16_Witness ==
    \E j \in DOMAIN trace : \E i \in DOMAIN trace[j].hooks :
        /\ GatedOut(j, i)
        /\ Len(Steps(trace[j].hooks[i])) = 2
        /\ FirstStepMatches(trace[j].hooks, trace[j].e) = <<>>
        /\ trace[j].sequence = <<>>
        /\ j + 1 \in DOMAIN trace

-----------------------------------------------------------------------------
\* The hooks of the pool, in the pool's order, that event j completes: the
\* event satisfies their next step and it is their last one.
Completing(j) ==
    SelectSeq(PoolBefore(j),
              LAMBDA h : Satisfies(trace[j].e, h, 1) /\ Len(Steps(h)) = 1)

\* The position of the hook with callback cb in the registered list.
RegistrationIndex(cb) == CHOOSE i \in DOMAIN keyboardHooks : keyboardHooks[i].callback = cb

\* C17: when an event completes several hooks of the pool, in Idle or in
\* the middle of a sequence, exactly one action is invoked, the action of
\* the first of them, and the typed sequence is empty afterwards; the
\* candidates are always in registration order, so the first of them is the
\* earliest registered.
C17_TieBreakByRegistrationOrder ==
    /\ \A a, b \in DOMAIN candidateHooks :
           a < b => RegistrationIndex(candidateHooks[a].callback)
                        < RegistrationIndex(candidateHooks[b].callback)
    /\ \A j \in DOMAIN trace :
           (~IsPureModifier(trace[j].e) /\ Len(Completing(j)) >= 2) =>
               /\ trace[j].invoked = <<Completing(j)[1].callback>>
               /\ trace[j].sequence = <<>>

\* Two candidates completed on the same event in the middle of a sequence,
\* and the action of the one registered first was invoked.
C17_Witness ==
    \E j \in DOMAIN trace :
        /\ trace[j].pending
        /\ Len(Completing(j)) = 2
        /\ RegistrationIndex(Completing(j)[1].callback) = 1
        /\ RegistrationIndex(Completing(j)[2].callback) = 2
        /\ trace[j].invoked = <<Completing(j)[1].callback>>

-----------------------------------------------------------------------------
\* C18 as stated: in every reachable state, the initial one included,
\* candidateHooks is empty exactly when currentSequence is empty.
C18_CandidatesEmptyIffSequenceEmpty ==
    (candidateHooks = <<>>) <=> (currentSequence = <<>>)

\* C18 amended: the typed sequence is created empty and candidateHooks is
\* created as the registered hook list; an event that leaves the typed
\* sequence empty (a fire, a reset) leaves candidateHooks as it was; and
\* whenever the typed sequence is non-empty, candidateHooks is non-empty and
\* each candidate has a step left.
C18_PendingHasCandidates ==
    /\ trace = <<>> => (currentSequence = <<>> /\ candidateHooks = keyboardHooks)
    /\ \A j \in DOMAIN trace :
           trace[j].sequence = <<>> => trace[j].candidates = CandidatesBefore(j)
    /\ currentSequence # <<>> =>
           /\ candidateHooks # <<>>
           /\ \A c \in DOMAIN candidateHooks : Steps(candidateHooks[c]) # <<>>

\* A sequence was started and the next event fired a hook: the typed
\* sequence is empty again and candidateHooks still holds the suffixes of
\* the sequence that is over.
C18_Witness ==
    /\ trace # <<>>
    /\ LastEntry.pending
    /\ LastEntry.kind = "fired"
    /\ currentSequence = <<>>
    /\ candidateHooks # <<>>
    /\ candidateHooks # keyboardHooks

-----------------------------------------------------------------------------
\* Candidate c is a copy of a registered hook that holds what is left of the
\* hook's pattern after the typed keys.
IsSuffixCopy(c) ==
    \E i \in DOMAIN keyboardHooks :
        LET h == keyboardHooks[i]
        IN  /\ c = [h EXCEPT !.keyboardEvent =
                       [array |-> TRUE,
                        steps |-> SubSeq(Steps(h), Len(currentSequence) + 1, Len(Steps(h)))]]

\* C19: consuming events leaves the registered hook list as it was
\* registered, patterns and other fields alike; in the middle of a sequence
\* the candidates are copies of registered hooks holding the remaining
\* suffix; and every event consumed in Idle, also after a fire or a reset,
\* is matched against the first steps of the patterns as registered.
C19_HookListNotMutated ==
    /\ \A j \in DOMAIN trace : trace[j].hooks = keyboardHooks
    /\ currentSequence # <<>> =>
           \A c \in DOMAIN candidateHooks : IsSuffixCopy(candidateHooks[c])
    /\ \A j \in DOMAIN trace :
           (~trace[j].pending /\ ~IsPureModifier(trace[j].e)) =>
               trace[j].survivors = FirstStepMatches(keyboardHooks, trace[j].e)

\* A two-step hook fired, and the next event started the same hook's pattern
\* over from its first step.
C19_Witness ==
    \E j \in DOMAIN trace :
        /\ trace[j].pending
        /\ trace[j].kind = "fired"
        /\ j + 1 \in DOMAIN trace
        /\ trace[j + 1].kind = "advanced"
        /\ trace[j].invoked[1] \in Callbacks(trace[j + 1].candidates)

-----------------------------------------------------------------------------
\* The typed keys recorded so far: those of the current sequence and those
\* of the sequences the events left behind.
TypedKeys ==
    Range(currentSequence) \cup UNION {Range(trace[j].sequence) : j \in DOMAIN trace}

\* C20: for every combination of the four modifier flags and every key, the
\* representation recorded for a typed key is the symbols of the flags set
\* on the event in the order meta, alt, control, shift, followed by the
\* event's key; equal events get equal representations; and which hooks an
\* event matches is decided by the descriptors alone, whatever the
\* representation of the typed keys.
C20_FormatKey ==
    /\ \A t \in TypedKeys : t.basicRepresentation = DisplayToken(t.event)
    /\ \A j \in DOMAIN trace :
           trace[j].kind = "advanced" =>
               trace[j].sequence[Len(trace[j].sequence)] =
                   [event |-> trace[j].e, basicRepresentation |-> DisplayToken(trace[j].e)]
    /\ \A t, u \in TypedKeys : t.event = u.event => t.basicRepresentation = u.basicRepresentation
    /\ \A j \in DOMAIN trace :
           trace[j].survivors = SelectSeq(PoolBefore(j), LAMBDA h : Satisfies(trace[j].e, h, 1))

\* A key pressed with all four modifiers and a key pressed with none are in
\* the current sequence, each with its representation.
C20_Witness ==
    /\ Len(currentSequence) = 2
    /\ currentSequence[1].event.metaKey /\ currentSequence[1].event.altKey
    /\ currentSequence[1].event.ctrlKey /\ currentSequence[1].event.shiftKey
    /\ currentSequence[1].basicRepresentation = "<cmd><opt>^<shift>l"
    /\ currentSequence[2].basicRepresentation = "o"

-----------------------------------------------------------------------------
\* C21 as stated: an event matches a descriptor exactly when every attribute
\* the descriptor names is on the event with an equal value, no attribute
\* being ignored: the hooks that survive an event are the hooks of the pool
\* whose next descriptor the event matches in that sense.
C21_EveryAttributeCompared ==
    \A j \in DOMAIN trace :
        ~IsPureModifier(trace[j].e) =>
            trace[j].survivors =
                SelectSeq(PoolBefore(j), LAMBDA h : Satisfies(trace[j].e, h, 1))

\* The descriptor attributes the mounted component leaves out of the
\* comparison.
IgnoredAttributes == IF variant = "index" THEN {"contextName"} ELSE {}

\* The event has every compared attribute of the descriptor, with an equal
\* value.
MatchesCompared(e, d) ==
    \A k \in DOMAIN d \ IgnoredAttributes : k \in DOMAIN e /\ e[k] = d[k]

\* C21 amended: in index.tsx an event matches a descriptor exactly when
\* every attribute the descriptor names other than contextName is on the
\* event with an equal value, and a contextName in the descriptor is
\* ignored; in the variant of part_001 every attribute is compared.
C21_ContextNameIsIgnored ==
    \A j \in DOMAIN trace :
        ~IsPureModifier(trace[j].e) =>
            trace[j].survivors =
                SelectSeq(PoolBefore(j),
                          LAMBDA h : /\ Enabled(h)
                                     /\ Steps(h) # <<>>
                                     /\ MatchesCompared(trace[j].e, Steps(h)[1])
                                     /\ (Truthy(h.allowOnTextInput) \/ ~IsFromTextEntry(trace[j].e)))

\* In index.tsx an event without a contextName started the sequence of a
\* hook whose first descriptor names one, and the next event fired the hook.
C21_Witness ==
    \E j \in DOMAIN trace :
        /\ variant = "index"
        /\ ~trace[j].pending
        /\ \E i \in DOMAIN trace[j].survivors :
               /\ "contextName" \in DOMAIN Steps(trace[j].survivors[i])[1]
               /\ "contextName" \notin DOMAIN trace[j].e
               /\ j + 1 \in DOMAIN trace
               /\ trace[j + 1].invoked = <<trace[j].survivors[i].callback>>

-----------------------------------------------------------------------------
\* The number of steps of the longest registered pattern.
LongestPattern ==
    CHOOSE n \in {Len(Steps(keyboardHooks[i])) : i \in DOMAIN keyboardHooks} :
        \A i \in DOMAIN keyboardHooks : Len(Steps(keyboardHooks[i])) <= n

\* C22: with a fixed hook list, in every reachable state the typed sequence
\* is shorter than the longest registered pattern and there are no more
\* candidates than registered hooks.
C22_BoundedProgress ==
    /\ Len(currentSequence) < LongestPattern
    /\ Len(candidateHooks) <= Len(keyboardHooks)

\* After a sequence was completed, one more event than the longest pattern
\* has steps has been consumed and the typed sequence is one short of the
\* longest pattern.
C22_Witness ==
    /\ Len(trace) > LongestPattern
    /\ Len(currentSequence) = LongestPattern - 1
    /\ currentSequence # <<>>
    /\ \E j \in DOMAIN trace : trace[j].pending /\ trace[j].kind = "fired"

-----------------------------------------------------------------------------
\* Candidate c stands for registered hook h after the typed keys: the typed
\* events matched the first steps of h in order, and c holds the steps of h
\* that are left, at least one.
IsProgressOf(c, h) ==
    LET k == Len(currentSequence)
    IN  /\ c.callback = h.callback
        /\ k < Len(Steps(h))
        /\ \A m \in 1..k : Matches(currentSequence[m].event, Steps(h)[m])
        /\ Steps(c) = SubSeq(Steps(h), k + 1, Len(Steps(h)))
        /\ Steps(c) # <<>>

\* C23: with a fixed hook list, whenever the typed sequence has k > 0 keys,
\* the candidate list is non-empty and every candidate is a registered hook
\* whose first k steps the k typed events matched in order, with the rest of
\* its registered pattern, which is not empty, as its remaining steps.
C23_PendingInvariant ==
    currentSequence # <<>> =>
        /\ candidateHooks # <<>>
        /\ \A c \in DOMAIN candidateHooks :
               \E i \in DOMAIN keyboardHooks :
                   IsProgressOf(candidateHooks[c], keyboardHooks[i])

\* Three events were consumed, two keys are typed, and a candidate with a
\* step left stands for a three-step hook.
C23_Witness ==
    /\ Len(trace) = 3
    /\ Len(currentSequence) = 2
    /\ \E c \in DOMAIN candidateHooks : \E i \in DOMAIN keyboardHooks :
           /\ Len(Steps(keyboardHooks[i])) = 3
           /\ IsProgressOf(candidateHooks[c], keyboardHooks[i])

-----------------------------------------------------------------------------
\* The pure modifier keypresses: the key is one of the four modifier keys.
IsModifierKeypress(e) == e.key \in {"Meta", "Alt", "Control", "Shift"}

\* The events of the trace that are no pure modifier keypress.
NonModifierEvents == SelectSeq(trace, LAMBDA t : ~IsModifierKeypress(t.e))

\* From Idle, the events acc[i] .. acc[i+n-1] satisfy the n steps of the
\* registered hook x in order, and no other registered hook is completed by
\* a prefix of them.
TypedInFull(acc, x, i) ==
    LET h == keyboardHooks[x]
        n == Len(Steps(h))
    IN  /\ n >= 1
        /\ i + n - 1 \in DOMAIN acc
        /\ ~acc[i].pending
        /\ \A m \in 1..n : Satisfies(acc[i + m - 1].e, h, m)
        /\ \A g \in DOMAIN keyboardHooks \ {x} :
               LET ng == Len(Steps(keyboardHooks[g]))
               IN  ~(/\ ng \in 1..n
                     /\ \A m \in 1..ng : Satisfies(acc[i + m - 1].e, keyboardHooks[g], m))

\* C24: with a fixed hook list and no early completion, when from Idle the
\* consecutive events that are no pure modifier keypress satisfy the steps
\* of an enabled hook in order and complete no other hook, the hook's action
\* is invoked on the event that matches its last step.
C24_Completeness ==
    ~allowEarlyCompletion =>
        \A x \in DOMAIN keyboardHooks : \A i \in DOMAIN NonModifierEvents :
            TypedInFull(NonModifierEvents, x, i) =>
                keyboardHooks[x].callback \in
                    Range(NonModifierEvents[i + Len(Steps(keyboardHooks[x])) - 1].invoked)

-----------------------------------------------------------------------------
\* C25: the action invoked by the event that completes a multi-step sequence
\* is the callback of a hook of the list registered when that event arrives,
\* also when the caller has passed a new callback for the hook since the
\* sequence started.
C25_CurrentCallbackRuns ==
    \A j \in DOMAIN trace :
        trace[j].pending =>
            \A c \in Range(trace[j].invoked) : c \in Callbacks(trace[j].hooks)

-----------------------------------------------------------------------------
\* C26: every event after the first is matched against the typed sequence
\* and the candidates the event before it produced, whether or not the
\* component has re-rendered in between: it is taken as mid-sequence exactly
\* when the event before it left a non-empty typed sequence, and when it
\* advances, the typed sequence grows by its key, no earlier key being lost.
C26_NoStaleSnapshot ==
    \A j \in DOMAIN trace :
        j > 1 =>
            /\ trace[j].pending <=> (trace[j - 1].sequence # <<>>)
            /\ trace[j].kind = "advanced" =>
                   Len(trace[j].sequence) = Len(trace[j - 1].sequence) + 1

-----------------------------------------------------------------------------
\* Event j is an Escape key event consumed by ReactKeyboardNav with
\* escapeToExitSequence set.
ExplicitClear(j) ==
    /\ variant = "ReactKeyboardNav"
    /\ escapeToExitSequence
    /\ trace[j].e.key = "Escape"

\* C27: in ReactKeyboardNav with escapeToExitSequence set, an Escape key
\* event, in Idle or in the middle of a sequence, leaves the typed sequence
\* empty and invokes no action; with escapeToExitSequence unset the Escape
\* key event is matched like any other key: the hooks it fires or advances
\* are the hooks of the pool whose next step it satisfies.  In every variant
\* an event takes the typed sequence from non-empty to empty only when it
\* fires a hook, when it is no pure modifier keypress and satisfies the next
\* step of no candidate, or when it is this explicit clear.
C27_EscapeClearsAndOnlyThreeWaysToEmpty ==
    \A j \in DOMAIN trace :
        /\ ExplicitClear(j) =>
               /\ trace[j].sequence = <<>>
               /\ trace[j].invoked = <<>>
        /\ (/\ variant = "ReactKeyboardNav"
            /\ ~escapeToExitSequence
            /\ trace[j].e.key = "Escape") =>
               /\ trace[j].survivors = FirstStepMatches(PoolBefore(j), trace[j].e)
               /\ trace[j].survivors # <<>> =>
                      trace[j].kind \in {"fired", "early", "advanced"}
        /\ (SequenceBefore(j) # <<>> /\ trace[j].sequence = <<>>) =>
               \/ trace[j].invoked # <<>>
               \/ /\ ~IsModifierKeypress(trace[j].e)
                  /\ FirstStepMatches(CandidatesBefore(j), trace[j].e) = <<>>
               \/ ExplicitClear(j)

-----------------------------------------------------------------------------
\* Event e satisfies the only step of the registered hook at index i, which
\* is enabled, and matches no step of any other registered hook.
OnlyForSingleStep(e, i) ==
    /\ Len(Steps(keyboardHooks[i])) = 1
    /\ Satisfies(e, keyboardHooks[i], 1)
    /\ \A g \in DOMAIN keyboardHooks \ {i} :
           \A k \in DOMAIN Steps(keyboardHooks[g]) :
               ~Matches(e, Steps(keyboardHooks[g])[k])

\* C28: with a fixed hook list, whatever the state, when two consecutive
\* events satisfy the enabled single-step hook H and match no step of any
\* other hook, the action of H is invoked on the first or on the second; on
\* the first it is not invoked only when a sequence was in progress, and the
\* event then leaves the typed sequence empty.
C28_BoundedResponse ==
    \A j \in DOMAIN trace : \A i \in DOMAIN keyboardHooks :
        (/\ j < Len(trace)
         /\ OnlyForSingleStep(trace[j].e, i)
         /\ OnlyForSingleStep(trace[j + 1].e, i)) =>
            \/ trace[j].invoked = <<keyboardHooks[i].callback>>
            \/ /\ trace[j].pending
               /\ trace[j].invoked = <<>>
               /\ trace[j].sequence = <<>>
               /\ trace[j + 1].invoked = <<keyboardHooks[i].callback>>

\* A sequence was in progress; the first of two events for the single-step
\* hook reset it and the second ran the hook's action.
C28_Witness ==
    \E j \in DOMAIN trace : \E i \in DOMAIN keyboardHooks :
        /\ j < Len(trace)
        /\ OnlyForSingleStep(trace[j].e, i)
        /\ OnlyForSingleStep(trace[j + 1].e, i)
        /\ trace[j].pending
        /\ trace[j].invoked = <<>>
        /\ trace[j + 1].invoked = <<keyboardHooks[i].callback>>

====
